---- MODULE Spec2Model ----
(***************************************************************************)
(* Model of the image obfuscation tool (image_encrypt.py) and of the       *)
(* legacy XOR+swap script.  Pure helpers are operators computed the way    *)
(* the code computes them; the command-line runs are a state machine over  *)
(* the file system, the frame of the running call and a log of completed   *)
(* calls.                                                                  *)
(***************************************************************************)
EXTENDS Integers, Sequences, FiniteSets, TLC

VARIABLES
    ks,       \* a call of _key_stream: arguments, position, result
    perm,     \* a call of _shuffle_indices then _unshuffle_indices
    codec,    \* a call of _bytes_to_pixels
    fs,       \* the file each path names (NoFile when none)
    dirs,     \* the directories that exist
    run,      \* the frame of the running main(): arguments, locals, position
    log,      \* the finished runs, oldest first
    ambient,  \* state of the process-wide default generator of `random`;
              \* every process starts with one no other process has
    legacy    \* an encrypt/decrypt pair of the legacy script

vars == <<ks, perm, codec, fs, dirs, run, log, ambient, legacy>>

(***************************************************************************)
(* Bounds of the model.                                                    *)
(***************************************************************************)
\* longest key stream asked of _key_stream (three digests)
MaxLength == 70
\* longest list given to _shuffle_indices with arbitrary draws
MaxN == 4
\* longest buffer given to _bytes_to_pixels
MaxData == 5
\* most pixels (width * height) of an input image
MaxPixels == 2
\* most command-line runs in a row
MaxRuns == 2
\* most runs in a row of the repeated-call specification
MaxCalls == 3
\* swaps per swap_pixels call (the legacy script makes 10000)
NumSwaps == 3

(***************************************************************************)
(* Byte arithmetic and library stand-ins.                                  *)
(***************************************************************************)
RECURSIVE XorBits(_, _, _)
XorBits(a, b, w) ==
    IF w = 0 THEN 0
    ELSE (((a % 2) + (b % 2)) % 2) + (2 * XorBits(a \div 2, b \div 2, w - 1))

\* a ^ b on two byte values
Xor(a, b) == XorBits(a, b, 8)

\* list(range(n)); lists are sequences, position i of the code is element i + 1
range(n) == [i \in 1..n |-> i - 1]

\* str.encode("utf-8") of one code point below 0x800
Utf8(cp) ==
    IF cp < 128 THEN <<cp>>
    ELSE <<192 + (cp \div 64), 128 + (cp % 64)>>

RECURSIVE encode(_)
encode(s) ==
    IF s = <<>> THEN <<>> ELSE Utf8(Head(s)) \o encode(Tail(s))

DigestSize == 32

RECURSIVE Pow31(_)
Pow31(n) ==
    IF n = 0 THEN 1
    ELSE IF n % 2 = 0 THEN (Pow31(n \div 2) * Pow31(n \div 2)) % 32749
    ELSE (31 * Pow31(n - 1)) % 32749

\* polynomial checksum of bytes[lo..hi], computed by halves
RECURSIVE Poly(_, _, _)
Poly(bytes, lo, hi) ==
    IF lo > hi THEN 0
    ELSE IF lo = hi THEN bytes[lo] + 1
    ELSE LET m == (lo + hi) \div 2
         IN  ((Poly(bytes, lo, m) * Pow31(hi - m)) + Poly(bytes, m + 1, hi)) % 32749

Absorb(salt, bytes) ==
    ((salt * Pow31(Len(bytes))) + Poly(bytes, 1, Len(bytes))) % 32749

\* hashlib.sha256(bytes).digest(): a fixed function from byte strings to
\* DigestSize bytes (a stand-in mixing function with the same signature)
sha256(bytes) ==
    LET s == Absorb(Len(bytes) + 7, bytes)
    IN  [k \in 1..DigestSize |-> (((s + k) * (2 * k + 1)) + ((s \div 251) * k)) % 256]

\* s[-k:] of a list
LastN(s, k) == SubSeq(s, IF Len(s) > k THEN Len(s) - k + 1 ELSE 1, Len(s))

\* s[:k] of a list, k >= 0
FirstN(s, k) == SubSeq(s, 1, IF k < Len(s) THEN k ELSE Len(s))

(***************************************************************************)
(* _key_stream                                                             *)
(***************************************************************************)
\* faulty variant: chains on the last 16 bytes only
HashInput_short(h, stream) ==
    IF Len(stream) >= 32 THEN h \o LastN(stream, 16) ELSE h

\* the argument of sha256 on line 18
HashInput(h, stream) ==
    IF Len(stream) >= 32 THEN h \o LastN(stream, 32) ELSE h

RECURSIVE key_stream_loop(_, _, _)
key_stream_loop(h, stream, length) ==
    IF Len(stream) < length
    THEN key_stream_loop(h, stream \o sha256(HashInput(h, stream)), length)
    ELSE FirstN(stream, length)

_key_stream(key, length) ==
    key_stream_loop(sha256(encode(key)), <<>>, length)

(***************************************************************************)
(* _shuffle_indices, _unshuffle_indices                                    *)
(***************************************************************************)
\* x[i], x[j] = x[j], x[i] (0-based i, j)
Swap(x, i, j) == [x EXCEPT ![i + 1] = x[j + 1], ![j + 1] = x[i + 1]]

\* A generator is the list of raw values it will produce; randbelow(k)
\* consumes the first one and reduces it below k.
randbelow(rng, k) == Head(rng) % k

RECURSIVE shuffle_from(_, _, _)
shuffle_from(x, rng, i) ==
    IF i < 1 THEN x
    ELSE shuffle_from(Swap(x, i, randbelow(rng, i + 1)), Tail(rng), i - 1)

\* random.Random.shuffle(x): for i in reversed(range(1, len(x)))
shuffle(x, rng) == shuffle_from(x, rng, Len(x) - 1)

\* faulty variant: draws every entry independently (sampling with replacement)
ShuffleWith_sample(n, rng) == [i \in 1..n |-> rng[i] % n]

\* lines 25-27 for a given generator
ShuffleWith(n, rng) == shuffle(range(n), rng)

RECURSIVE unshuffle_loop(_, _, _)
unshuffle_loop(shuffled, inverse, i) ==
    IF i >= Len(shuffled) THEN inverse
    ELSE unshuffle_loop(shuffled,
                        [inverse EXCEPT ![shuffled[i + 1] + 1] = i], i + 1)

\* faulty variant: inverse[i] = j
_unshuffle_indices_copy(shuffled) == shuffled

_unshuffle_indices(shuffled) ==
    unshuffle_loop(shuffled, [k \in 1..Len(shuffled) |-> 0], 0)

(***************************************************************************)
(* _pixels_to_bytes, _bytes_to_pixels                                      *)
(***************************************************************************)
RECURSIVE pixel_channels(_, _, _)
pixel_channels(p, channels, c) ==
    IF c >= channels THEN <<>>
    ELSE <<IF c < Len(p) THEN p[c + 1] ELSE 255>>
         \o pixel_channels(p, channels, c + 1)

RECURSIVE _pixels_to_bytes(_, _)
_pixels_to_bytes(pixels, channels) ==
    IF pixels = <<>> THEN <<>>
    ELSE pixel_channels(Head(pixels), channels, 0)
         \o _pixels_to_bytes(Tail(pixels), channels)

\* data[i : j] of a list (0-based, j may pass the end)
Slice(data, i, j) == SubSeq(data, i + 1, IF j < Len(data) THEN j ELSE Len(data))

RECURSIVE bytes_to_pixels_loop(_, _, _)
bytes_to_pixels_loop(data, channels, i) ==
    IF i >= Len(data) THEN <<>>
    ELSE <<Slice(data, i, i + channels)>>
         \o bytes_to_pixels_loop(data, channels, i + channels)

\* faulty variant: stops before a trailing partial pixel
_bytes_to_pixels_whole(data, channels) ==
    bytes_to_pixels_loop(FirstN(data, Len(data) - (Len(data) % channels)), channels, 0)

_bytes_to_pixels(data, channels) == bytes_to_pixels_loop(data, channels, 0)

(***************************************************************************)
(* The seeded generator of _shuffle_indices.                               *)
(***************************************************************************)
\* int(hashlib.sha256(password.encode("utf-8")).hexdigest()[:16], 16): the
\* first 8 digest bytes, kept as the big-endian digits of the integer
SeedOf(password) == FirstN(sha256(encode(password)), 8)

\* one step of the stand-in generator
Raw(state) == ((state * 75) + 74) % 65537

\* the first `count` raw values a generator started in `state` produces
RECURSIVE Draws(_, _)
Draws(state, count) ==
    IF count = 0 THEN <<>>
    ELSE <<Raw(state)>> \o Draws(Raw(state), count - 1)

\* raw values enough for one shuffle of the largest buffer
Stream(state) == Draws(state, 4 * MaxPixels)

\* random.Random(seed): a fixed function of the seed (stand-in generator)
Random(seed) == Stream(Absorb(1, seed))

\* faulty variant: shuffles with the process-wide generator, never seeded
_shuffle_indices_ambient(n, seed) == ShuffleWith(n, Stream(ambient))

_shuffle_indices(n, seed) == ShuffleWith(n, Random(seed))

(***************************************************************************)
(* The transform steps of encrypt_image and decrypt_image.                 *)
(***************************************************************************)
\* for i in range(n): flat[i] ^= key_bytes[i]
XorBuffer(flat, key_bytes) ==
    [i \in 1..Len(flat) |-> Xor(flat[i], key_bytes[i])]

RECURSIVE scatter(_, _, _, _)
scatter(flat, indices, target, i) ==
    IF i >= Len(flat) THEN target
    ELSE scatter(flat, indices,
                 [target EXCEPT ![indices[i + 1] + 1] = flat[i + 1]], i + 1)

\* faulty variant: shuffled[i] = flat[j]
Permute_gather(flat, indices) ==
    [i \in 1..Len(flat) |-> flat[indices[i] + 1]]

\* shuffled = bytearray(n); for i, j in enumerate(indices): shuffled[j] = flat[i]
Permute(flat, indices) ==
    scatter(flat, indices, [k \in 1..Len(flat) |-> 0], 0)

\* faulty variant: unshuffled[i] = flat[inverse[i]]
Unpermute_gather(flat, inverse) ==
    [i \in 1..Len(flat) |-> flat[inverse[i] + 1]]

\* unshuffled = bytearray(n); for i in range(n): unshuffled[inverse[i]] = flat[i]
Unpermute(flat, inverse) ==
    scatter(flat, inverse, [k \in 1..Len(flat) |-> 0], 0)

\* faulty variant: the flag is ignored
DoShuffle_always(flag) == TRUE

\* `if shuffle:` / `if was_shuffled:`
DoShuffle(flag) == flag

(***************************************************************************)
(* Files, images and command lines.                                        *)
(***************************************************************************)
\* the entry of a path that names no file
NoFile == [mode |-> "none", size |-> <<0, 0>>, data |-> <<>>]

Paths == {"in.png", "out/enc.png"}

\* Path(p).parent
Parent(path) == IF path = "in.png" THEN "." ELSE "out"

\* "test" and a password with a two-byte UTF-8 character
Passwords == {<<116, 101, 115, 116>>, <<233>>}

\* pixel k of an input image: the bytes of one image are pairwise distinct
\* (but for the alpha an RGB image gets) and include 0 and values near 255
Pixel(mode, k) ==
    IF mode = "RGB" THEN <<10 * k, (10 * k) + 101, 255 - k>>
    ELSE <<(10 * k) + 1, (10 * k) + 2, 255 - k, k - 1>>

Sizes ==
    {sz \in (1..MaxPixels) \X (1..MaxPixels) : sz[1] * sz[2] <= MaxPixels}

\* image files: a mode, a size and row-major pixel tuples
Images ==
    {[mode |-> mode, size |-> sz,
      data |-> [k \in 1..(sz[1] * sz[2]) |-> Pixel(mode, k)]] :
        mode \in {"RGB", "RGBA"}, sz \in Sizes}

\* Image.open(path).convert("RGBA"): RGB pixels get alpha 255
ConvertRGBA(img) ==
    [mode |-> "RGBA", size |-> img.size,
     data |-> [k \in 1..Len(img.data) |->
                  IF img.mode = "RGB" THEN img.data[k] \o <<255>> ELSE img.data[k]]]

\* what argparse hands to main; every run writes out/enc.png
CommandLines ==
    [command : {"encrypt", "decrypt"}, input : Paths, output : {"out/enc.png"},
     password : Passwords, no_shuffle : BOOLEAN]

\* command lines of the repeated-call runs: shuffle on
ShuffledLines == {args \in CommandLines : ~args.no_shuffle}

Idle == [pc |-> "idle"]

NoFrame ==
    [pc |-> "idle", command |-> "", input |-> "", output |-> "",
     password |-> <<>>, shuffle |-> FALSE, size |-> <<0, 0>>,
     flat0 |-> <<>>, mid |-> <<>>, flat |-> <<>>, key_bytes |-> <<>>,
     indices |-> <<>>, out_img |-> NoFile, pre_fs |-> <<>>, pre_dirs |-> {}]

(***************************************************************************)
(* main, encrypt_image, decrypt_image as steps of one run.                 *)
(***************************************************************************)
PipeIdle == /\ ks = Idle /\ perm = Idle /\ codec = Idle /\ legacy = Idle

PipeRest == UNCHANGED <<ks, perm, codec, legacy>>

\* main: parse_args and the call of encrypt_image / decrypt_image; pre_fs
\* and pre_dirs remember the file system the process started with
MainOf(lines, bound) ==
    /\ run.pc = "idle"
    /\ Len(log) < bound
    /\ \E args \in lines :
          run' = [NoFrame EXCEPT !.pc = "is_file",
                                 !.command = args.command,
                                 !.input = args.input,
                                 !.output = args.output,
                                 !.password = args.password,
                                 !.shuffle = ~args.no_shuffle,
                                 !.pre_fs = fs,
                                 !.pre_dirs = dirs]
    /\ ambient' = ambient + 1
    /\ UNCHANGED <<fs, dirs, log>>
    /\ PipeRest

\* faulty variant: the output directory is made before the input is checked
CheckInput_mkdir_first ==
    /\ run.pc = "is_file"
    /\ dirs' = dirs \cup {Parent(run.output)}
    /\ run' = [run EXCEPT !.pc = IF fs[run.input] = NoFile THEN "raised" ELSE "open"]
    /\ UNCHANGED <<fs, log, ambient>>
    /\ PipeRest

\* if not path.is_file(): raise FileNotFoundError
CheckInput ==
    /\ run.pc = "is_file"
    /\ run' = [run EXCEPT !.pc = IF fs[run.input] = NoFile THEN "raised" ELSE "open"]
    /\ UNCHANGED <<fs, dirs, log, ambient>>
    /\ PipeRest

\* Image.open(...).convert("RGBA"), getdata, _pixels_to_bytes
Load ==
    /\ run.pc = "open"
    /\ LET img == ConvertRGBA(fs[run.input])
           flat == _pixels_to_bytes(img.data, 4)
       IN  run' = [run EXCEPT !.size = img.size,
                              !.flat0 = flat,
                              !.flat = flat,
                              !.pc = IF run.command = "decrypt" /\ DoShuffle(run.shuffle)
                                     THEN "unshuffle" ELSE "xor"]
    /\ UNCHANGED <<fs, dirs, log, ambient>>
    /\ PipeRest

\* key_bytes = _key_stream(password, n) and the XOR loop
XorStep ==
    /\ run.pc = "xor"
    /\ LET key_bytes == _key_stream(run.password, Len(run.flat))
           xored == XorBuffer(run.flat, key_bytes)
       IN  run' = [run EXCEPT !.key_bytes = key_bytes,
                              !.flat = xored,
                              !.mid = IF run.command = "encrypt" THEN xored ELSE run.mid,
                              !.pc = IF run.command = "encrypt" /\ DoShuffle(run.shuffle)
                                     THEN "shuffle" ELSE "rebuild"]
    /\ UNCHANGED <<fs, dirs, log, ambient>>
    /\ PipeRest

\* encrypt_image, `if shuffle:` block
ShuffleStep ==
    /\ run.pc = "shuffle"
    /\ LET indices == _shuffle_indices(Len(run.flat), SeedOf(run.password))
       IN  run' = [run EXCEPT !.indices = indices,
                              !.flat = Permute(run.flat, indices),
                              !.pc = "rebuild"]
    /\ UNCHANGED <<fs, dirs, log, ambient>>
    /\ PipeRest

\* decrypt_image, `if was_shuffled:` block
UnshuffleStep ==
    /\ run.pc = "unshuffle"
    /\ LET indices == _shuffle_indices(Len(run.flat), SeedOf(run.password))
           inverse == _unshuffle_indices(indices)
           unshuffled == Unpermute(run.flat, inverse)
       IN  run' = [run EXCEPT !.indices = indices,
                              !.flat = unshuffled,
                              !.mid = unshuffled,
                              !.pc = "xor"]
    /\ UNCHANGED <<fs, dirs, log, ambient>>
    /\ PipeRest

\* _bytes_to_pixels, Image.new, putdata
Rebuild ==
    /\ run.pc = "rebuild"
    /\ run' = [run EXCEPT !.out_img = [mode |-> "RGBA", size |-> run.size,
                                       data |-> _bytes_to_pixels(run.flat, 4)],
                          !.pc = "mkdir"]
    /\ UNCHANGED <<fs, dirs, log, ambient>>
    /\ PipeRest

\* out_path.parent.mkdir(parents=True, exist_ok=True)
Mkdir ==
    /\ run.pc = "mkdir"
    /\ dirs' = dirs \cup {Parent(run.output)}
    /\ run' = [run EXCEPT !.pc = "save"]
    /\ UNCHANGED <<fs, log, ambient>>
    /\ PipeRest

\* out_img.save(out_path, "PNG") and the confirmation print
Save ==
    /\ run.pc = "save"
    /\ fs' = [fs EXCEPT ![run.output] = run.out_img]
    /\ run' = [run EXCEPT !.pc = "return"]
    /\ UNCHANGED <<dirs, log, ambient>>
    /\ PipeRest

\* what a finished process leaves behind: its arguments, the buffers it
\* computed, whether its input was missing, whether it left files and
\* directories as they were, the output file it leaves, and its exit code
LogEntry(code) ==
    [command |-> run.command, input |-> run.input, output |-> run.output,
     password |-> run.password, shuffle |-> run.shuffle,
     size |-> run.size, flat0 |-> run.flat0, mid |-> run.mid, out |-> run.flat,
     key_bytes |-> run.key_bytes, indices |-> run.indices,
     missing |-> (run.pre_fs[run.input] = NoFile),
     untouched |-> (fs = run.pre_fs /\ dirs = run.pre_dirs),
     out_dir |-> (Parent(run.output) \in dirs),
     out_file |-> fs[run.output], exit |-> code]

\* main returns: the process ends with exit code 0
ExitOk ==
    /\ run.pc = "return"
    /\ log' = Append(log, LogEntry(0))
    /\ run' = NoFrame
    /\ UNCHANGED <<fs, dirs, ambient>>
    /\ PipeRest

\* except FileNotFoundError: print the error, raise SystemExit(1)
ExitError ==
    /\ run.pc = "raised"
    /\ log' = Append(log, LogEntry(1))
    /\ run' = NoFrame
    /\ UNCHANGED <<fs, dirs, ambient>>
    /\ PipeRest

Init ==
    /\ PipeIdle
    /\ \E f \in Images \cup {NoFile} :
          fs = [p \in Paths |-> IF p = "in.png" THEN f ELSE NoFile]
    /\ dirs = {"."}
    /\ run = NoFrame
    /\ log = <<>>
    /\ ambient = 0

Main == MainOf(CommandLines, MaxRuns)

Steps ==
    \/ CheckInput
    \/ Load
    \/ XorStep
    \/ ShuffleStep
    \/ UnshuffleStep
    \/ Rebuild
    \/ Mkdir
    \/ Save
    \/ ExitOk
    \/ ExitError

Next == Main \/ Steps

Spec == Init /\ [][Next]_vars

\* runs of up to MaxCalls processes, shuffle on
MainShuffled == MainOf(ShuffledLines, MaxCalls)

NextCalls == MainShuffled \/ Steps

SpecCalls == Init /\ [][NextCalls]_vars

(***************************************************************************)
(* Properties of the command-line runs.                                    *)
(***************************************************************************)
Succeeded(e) == e.exit = 0

\* d decrypts what e produced, with e's password and flag: d ran right after
\* e on the file e wrote, or d loaded the very bytes e produced
Reverses(i, j) ==
    /\ log[i].command = "encrypt" /\ Succeeded(log[i])
    /\ log[j].command = "decrypt" /\ Succeeded(log[j])
    /\ log[j].password = log[i].password
    /\ log[j].shuffle = log[i].shuffle
    /\ \/ j = i + 1 /\ log[j].input = log[i].output
       \/ log[j].flat0 = log[i].out

\* C1: decrypt_image with the same password and the same shuffle flag, run on
\* the output of encrypt_image, reproduces the original flat pixel buffer
\* byte for byte.
RoundTrip ==
    (run.pc = "idle") =>
        \A i, j \in 1..Len(log) :
            Reverses(i, j) =>
                log[j].out = log[i].flat0 /\ log[j].size = log[i].size

RoundTripReached ==
    \E i, j \in 1..Len(log) :
        /\ Reverses(i, j) /\ j = i + 1
        /\ log[i].shuffle
        /\ Len(log[i].flat0) = 8
        /\ log[i].out # log[i].flat0
        /\ log[j].out = log[i].flat0

\* C5: with shuffle disabled the buffer encrypt_image produces is
\* flat[i] XOR keystream[i] at every position, no byte is moved, no
\* permutation is derived; decrypt_image with was_shuffled disabled applies the
\* same XOR and nothing else, and so reverses it.
NoShuffleIsXorOnly ==
    (run.pc = "idle") =>
    /\ \A i \in 1..Len(log) :
          (Succeeded(log[i]) /\ ~log[i].shuffle) =>
              LET e == log[i]
                  k == _key_stream(e.password, Len(e.flat0))
              IN  /\ Len(e.out) = Len(e.flat0)
                  /\ \A b \in 1..Len(e.flat0) : e.out[b] = Xor(e.flat0[b], k[b])
                  /\ e.indices = <<>>
    /\ \A i, j \in 1..Len(log) :
          (Reverses(i, j) /\ ~log[i].shuffle) => log[j].out = log[i].flat0

NoShuffleReached ==
    \E i, j \in 1..Len(log) :
        /\ Reverses(i, j) /\ j = i + 1
        /\ ~log[i].shuffle
        /\ Len(log[i].flat0) = 8
        /\ log[i].out # log[i].flat0

\* the permutation both directions derive from the password and n
P(e) == _shuffle_indices(Len(e.flat0), SeedOf(e.password))

\* C9: with shuffle enabled encrypt_image XORs first and permutes second:
\* out[P[i]] = flat[i] XOR keystream[i]; decrypt_image unpermutes first,
\* newbuf[i] = buf[P[i]], and XORs second; the unpermute step undoes the
\* permute step of the encryption it reverses.
ShuffleOrder ==
    /\ (run.pc = "idle") => \A i \in 1..Len(log) :
          (Succeeded(log[i]) /\ log[i].shuffle) =>
              LET e == log[i]
                  n == Len(e.flat0)
                  k == _key_stream(e.password, n)
                  p == P(e)
              IN  IF e.command = "encrypt"
                  THEN /\ \A b \in 1..n : e.mid[b] = Xor(e.flat0[b], k[b])
                       /\ \A b \in 1..n : e.out[p[b] + 1] = e.mid[b]
                  ELSE /\ \A b \in 1..n : e.mid[b] = e.flat0[p[b] + 1]
                       /\ \A b \in 1..n : e.out[b] = Xor(e.mid[b], k[b])
    /\ (run.pc = "idle") => \A i, j \in 1..Len(log) :
          (Reverses(i, j) /\ log[i].shuffle) => log[j].mid = log[i].mid
    /\ (run.pc = "shuffle") => run.key_bytes # <<>> /\ run.indices = <<>>
    /\ (run.pc = "xor" /\ run.command = "decrypt" /\ run.shuffle) =>
          run.key_bytes = <<>> /\ run.indices # <<>>

ShuffleOrderReached ==
    \E i, j \in 1..Len(log) :
        /\ Reverses(i, j) /\ j = i + 1
        /\ log[i].shuffle
        /\ Len(log[i].flat0) = 8
        /\ log[i].out # log[i].mid
        /\ log[j].mid = log[i].mid

\* C7: a run whose input path names no file ends with exit code 1 and leaves
\* the output file and its parent directory as they were; in every run the
\* file system is untouched until the transform is complete, the file then
\* written is the transformed image, and a run that found its input ends
\* with exit code 0.
MissingInputAndWriteOrder ==
    /\ (run.pc = "raised") =>
          fs[run.input] = NoFile /\ fs = run.pre_fs /\ dirs = run.pre_dirs
    /\ (run.pc \in {"is_file", "open", "xor", "shuffle", "unshuffle", "rebuild"}) =>
          fs = run.pre_fs /\ dirs = run.pre_dirs
    /\ (run.pc \in {"mkdir", "save"}) =>
          /\ fs = run.pre_fs
          /\ run.out_img.data = _bytes_to_pixels(run.flat, 4)
          /\ run.key_bytes # <<>>
    /\ (run.pc = "return") => fs[run.output] = run.out_img
    /\ (run.pc = "idle") => \A i \in 1..Len(log) :
          LET e == log[i]
          IN  /\ e.exit \in {0, 1}
              /\ (e.exit = 1) <=> e.missing
              /\ (e.exit = 1) => e.untouched
              /\ (e.exit = 0) =>
                    /\ e.out_dir
                    /\ e.out_file.size = e.size
                    /\ e.out_file.data = _bytes_to_pixels(e.out, 4)

MissingInputReached ==
    \E i \in 1..Len(log) :
        /\ log[i].exit = 1
        /\ log[i].missing
        /\ ~log[i].out_dir
        /\ log[i].out_file = NoFile

\* C8: the result of a call depends only on its explicit inputs: any two
\* calls of a run sequence with the same command, image bytes, password and
\* flag produce the same keystream, the same permutation and the same output
\* buffer, whatever calls ran before or between them.
SameInputs(a, b) ==
    /\ a.command = b.command /\ a.password = b.password /\ a.shuffle = b.shuffle
    /\ a.size = b.size /\ a.flat0 = b.flat0

PipeOff ==
    /\ fs = [p \in Paths |-> NoFile]
    /\ dirs = {"."}
    /\ run = NoFrame
    /\ log = <<>>
    /\ ambient = 0

Keys == Passwords \cup {<<>>}

InitKeyStream ==
    /\ ks \in [pc : {"call"}, key : Keys, length : 0..MaxLength, result : {<<>>}]
    /\ perm = Idle /\ codec = Idle /\ legacy = Idle
    /\ PipeOff

KeyStreamCall ==
    /\ ks.pc = "call"
    /\ ks' = [ks EXCEPT !.pc = "done", !.result = _key_stream(ks.key, ks.length)]
    /\ UNCHANGED <<perm, codec, fs, dirs, run, log, ambient, legacy>>

NextKeyStream == KeyStreamCall

SpecKeyStream == InitKeyStream /\ [][NextKeyStream]_vars

\* block k of the hash chain: B0 = H(seed), Bk = H(seed || B(k-1))
RECURSIVE Block(_, _)
Block(seed, k) ==
    IF k = 0 THEN sha256(seed) ELSE sha256(seed \o Block(seed, k - 1))

\* C4: _key_stream(key, length) is the first `length` bytes of B0 || B1 || ...
\* with seed = H(key): exactly `length` bytes, empty when length = 0.
KeyStreamIsChain ==
    (ks.pc = "done") =>
        LET seed == sha256(encode(ks.key))
        IN  /\ Len(ks.result) = ks.length
            /\ (ks.length = 0) => ks.result = <<>>
            /\ \A i \in 1..ks.length :
                  ks.result[i] =
                      Block(seed, (i - 1) \div DigestSize)[((i - 1) % DigestSize) + 1]

KeyStreamReached ==
    /\ ks.pc = "done"
    /\ ks.length = 70
    /\ SubSeq(ks.result, 33, 64) # SubSeq(ks.result, 1, 32)

InitPerm ==
    /\ perm \in [pc : {"call"}, n : 0..MaxN, rng : [1..MaxN -> 0..(MaxN - 1)],
                 indices : {<<>>}, inverse : {<<>>}]
    /\ ks = Idle /\ codec = Idle /\ legacy = Idle
    /\ PipeOff

\* _shuffle_indices for whatever the generator draws
PermShuffle ==
    /\ perm.pc = "call"
    /\ perm' = [perm EXCEPT !.pc = "shuffled",
                            !.indices = ShuffleWith(perm.n, perm.rng)]
    /\ UNCHANGED <<ks, codec, fs, dirs, run, log, ambient, legacy>>

PermUnshuffle ==
    /\ perm.pc = "shuffled"
    /\ perm' = [perm EXCEPT !.pc = "inverted",
                            !.inverse = _unshuffle_indices(perm.indices)]
    /\ UNCHANGED <<ks, codec, fs, dirs, run, log, ambient, legacy>>

NextPerm == PermShuffle \/ PermUnshuffle

SpecPerm == InitPerm /\ [][NextPerm]_vars

\* C2: for every n >= 0 and whatever the generator draws, the list
\* _shuffle_indices returns has length n and holds every value 0..n-1
\* exactly once.
ShuffleIsPermutation ==
    (perm.pc # "call") =>
        /\ Len(perm.indices) = perm.n
        /\ \A v \in 0..(perm.n - 1) :
              Cardinality({i \in 1..perm.n : perm.indices[i] = v}) = 1

ShuffleReached ==
    /\ perm.pc = "shuffled"
    /\ perm.n >= 3
    /\ perm.indices # range(perm.n)
    /\ perm.indices[1] # 0

\* C3: Q = _unshuffle_indices(P) is the two-sided inverse of the permutation
\* P: Q[P[i]] = i and P[Q[i]] = i for every i in 0..n-1.
UnshuffleIsInverse ==
    (perm.pc = "inverted") =>
        /\ Len(perm.inverse) = perm.n
        /\ \A i \in 0..(perm.n - 1) :
              /\ perm.inverse[perm.indices[i + 1] + 1] = i
              /\ perm.indices[perm.inverse[i + 1] + 1] = i

UnshuffleReached ==
    /\ perm.pc = "inverted"
    /\ perm.n >= 3
    /\ perm.inverse # perm.indices

ByteSamples == {0, 7, 255}

BufferSamples == UNION {[1..len -> ByteSamples] : len \in 0..MaxData}

InitCodec ==
    /\ codec \in [pc : {"call"}, data : BufferSamples, pixels : {<<>>},
                  raised : {FALSE}]
    /\ ks = Idle /\ perm = Idle /\ legacy = Idle
    /\ PipeOff

\* _bytes_to_pixels(data, 4): the slices never raise, whatever len(data) is
CodecCall ==
    /\ codec.pc = "call"
    /\ codec' = [codec EXCEPT !.pc = "done",
                              !.pixels = _bytes_to_pixels(codec.data, 4),
                              !.raised = FALSE]
    /\ UNCHANGED <<ks, perm, fs, dirs, run, log, ambient, legacy>>

NextCodec == CodecCall

SpecCodec == InitCodec /\ [][NextCodec]_vars

RECURSIVE Concat(_)
Concat(tuples) ==
    IF tuples = <<>> THEN <<>> ELSE Head(tuples) \o Concat(Tail(tuples))

\* C6 as stated: a buffer whose length is not divisible by 4 makes
\* _bytes_to_pixels signal an error instead of returning a pixel list.
MalformedBufferSignalled ==
    (codec.pc = "done" /\ Len(codec.data) % 4 # 0) => codec.raised

\* C6 as the code behaves: _bytes_to_pixels never signals an error; it
\* returns the buffer cut into consecutive tuples of 4 values, and when the
\* length is not divisible by 4 the last tuple holds the len % 4 values left.
ShortLastPixel ==
    (codec.pc = "done") =>
        LET len == Len(codec.data)
            full == len \div 4
        IN  /\ ~codec.raised
            /\ Len(codec.pixels) = full + (IF len % 4 = 0 THEN 0 ELSE 1)
            /\ \A k \in 1..full : Len(codec.pixels[k]) = 4
            /\ (len % 4 # 0) => Len(codec.pixels[full + 1]) = len % 4
            /\ Concat(codec.pixels) = codec.data

ShortLastPixelReached ==
    /\ codec.pc = "done"
    /\ Len(codec.data) = 5
    /\ Len(codec.pixels) = 2
    /\ Len(codec.pixels[2]) = 1

(***************************************************************************)
(* The legacy XOR+swap script.                                             *)
(***************************************************************************)
LegacyKeys == 0..255

LegacySizes == {<<1, 1>>, <<2, 1>>, <<3, 1>>, <<2, 2>>}

Coordinates(size) == (0..(size[1] - 1)) \X (0..(size[2] - 1))

\* an RGB image: a size and a pixel access object indexed by (x, y)
LegacyImages ==
    {[size |-> sz,
      pixels |-> [xy \in Coordinates(sz) |->
                     <<(10 * xy[1]) + xy[2], 100 + xy[1], 200 + xy[2]>>]] :
        sz \in LegacySizes}

\* xor_pixels(img, key): every channel of every pixel is XORed with key
xor_pixels(img, key) ==
    [img EXCEPT !.pixels =
        [xy \in Coordinates(img.size) |->
            <<Xor(img.pixels[xy][1], key), Xor(img.pixels[xy][2], key),
              Xor(img.pixels[xy][3], key)>>]]

\* random.seed(key): the raw values the module-wide generator then produces
seed(key) == Draws(key + 1, 4 * NumSwaps)

\* random.randint(0, hi): consumes one raw value
randint(rng, hi) == Head(rng) % (hi + 1)

\* the swap loop; the code runs it 10000 times, the model NumSwaps times
RECURSIVE swap_loop(_, _, _, _)
swap_loop(pixels, size, rng, todo) ==
    IF todo = 0 THEN pixels
    ELSE LET x1 == randint(rng, size[1] - 1)
             y1 == randint(Tail(rng), size[2] - 1)
             x2 == randint(Tail(Tail(rng)), size[1] - 1)
             y2 == randint(Tail(Tail(Tail(rng))), size[2] - 1)
             temp == pixels[<<x1, y1>>]
             first == [pixels EXCEPT ![<<x1, y1>>] = pixels[<<x2, y2>>]]
             second == [first EXCEPT ![<<x2, y2>>] = temp]
         IN  swap_loop(second, size, Tail(Tail(Tail(Tail(rng)))), todo - 1)

swap_pixels(img, key) ==
    [img EXCEPT !.pixels = swap_loop(img.pixels, img.size, seed(key), NumSwaps)]

InitLegacy ==
    /\ legacy \in [pc : {"start"}, key : LegacyKeys, original : LegacyImages,
                   file : {NoFile}, result : {NoFile}]
    /\ ks = Idle /\ perm = Idle /\ codec = Idle
    /\ PipeOff

\* encrypt_image(input_path, output_path, key) of the legacy script
LegacyEncrypt ==
    /\ legacy.pc = "start"
    /\ legacy' = [legacy EXCEPT
                     !.pc = "encrypted",
                     !.file = swap_pixels(xor_pixels(legacy.original, legacy.key),
                                          legacy.key)]
    /\ UNCHANGED <<ks, perm, codec, fs, dirs, run, log, ambient>>

\* decrypt_image(input_path, output_path, key) on the file encrypt_image saved
LegacyDecrypt ==
    /\ legacy.pc = "encrypted"
    /\ legacy' = [legacy EXCEPT
                     !.pc = "decrypted",
                     !.result = xor_pixels(swap_pixels(legacy.file, legacy.key),
                                           legacy.key)]
    /\ UNCHANGED <<ks, perm, codec, fs, dirs, run, log, ambient>>

NextLegacy == LegacyEncrypt \/ LegacyDecrypt

SpecLegacy == InitLegacy /\ [][NextLegacy]_vars

\* C10: in the legacy variant decrypt_image with the same key restores the
\* image encrypt_image was given.
LegacyRoundTrip ==
    (legacy.pc = "decrypted") => legacy.result = legacy.original

====
